---- MODULE Spec2Model ----
(***************************************************************************)
(* Model of examples/python/requests_example.py: the client-side helpers   *)
(* around the Nepali date converter HTTP API (retry, cache, batch,         *)
(* validation, typed-error wrapper).  The remote server and the network    *)
(* are the environment: every GET draws its outcome from Outcomes.         *)
(***************************************************************************)
EXTENDS Integers, Sequences, FiniteSets, TLC

VARIABLES
    log,        \* every requests.get and time.sleep performed, in order
    pc,         \* position of the function under execution
    args,       \* arguments of the call under execution
    attempt,    \* convert_with_retry: loop variable `attempt`
    ret,        \* what the call returned (or raised)
    cache,      \* DateConverterCache.cache
    calls,      \* history of the calls made on the DateConverterCache object
    idx,        \* convert_batch_dates: position of the for loop in `dates`
    results     \* convert_batch_dates: the list `results`

vars == <<log, pc, args, attempt, ret, cache, calls, idx, results>>

(***************************************************************************)
(* Bounds of the model.                                                    *)
(***************************************************************************)
MaxRetries == 3     \* max_retries is drawn from 0..MaxRetries
MaxCalls == 3       \* calls made on one DateConverterCache object
MaxBatch == 3       \* longest list handed to convert_batch_dates

None == [none |-> TRUE]     \* Python's None
NoKey == "NoKey"            \* a key absent from the JSON body
NoException == "NoException"    \* the statements raised nothing
Absent == [absent |-> TRUE] \* a key a dictionary does not have
Str(s) == [str |-> s]       \* a Python string, where None may stand too

(***************************************************************************)
(* The environment: what one requests.get(url, timeout=10) can produce.    *)
(***************************************************************************)
ConversionTypes == {"ad-to-bs", "bs-to-ad"}

\* result objects the server may answer with
Results == {[year |-> 2081, month |-> 6, day |-> 29],
            [year |-> 2024, month |-> 10, day |-> 15]}

\* status codes of the server's contract, and one more client error
Statuses == {200, 400, 403, 404, 500, 503}

Response(status, success, result, error) ==
    [kind |-> "response", status |-> status, success |-> success,
     result |-> result, error |-> error]

Failure(kind) ==
    [kind |-> kind, status |-> 0, success |-> FALSE, result |-> None,
     error |-> NoKey]

\* requests.get raises (no response), or a response arrives
Outcomes ==
    {Failure(k) : k \in {"Timeout", "ConnectionError", "ConnectTimeout"}}
    \cup {Response(200, TRUE, r, NoKey) : r \in Results}
    \cup {Response(200, FALSE, None, e) : e \in {"Invalid date", NoKey}}
    \cup {Response(s, FALSE, None, "error") : s \in Statuses \ {200}}

\* the exception classes involved and their base classes (requests.exceptions)
Bases(cls) ==
    CASE cls = "Timeout"         -> {"Timeout", "RequestException"}
      [] cls = "ConnectionError" -> {"ConnectionError", "RequestException"}
      [] cls = "ConnectTimeout"  -> {"ConnectTimeout", "ConnectionError",
                                     "Timeout", "RequestException"}
      [] cls = "HTTPError"       -> {"HTTPError", "RequestException"}
      [] cls = "ConversionError" -> {"ConversionError"}
      [] OTHER                   -> {}

IsInstance(cls, base) == base \in Bases(cls)

\* response.raise_for_status(): HTTPError for 4xx and 5xx
raise_for_status(status) == status >= 400 /\ status < 600

\* the class raised by `requests.get(...); response.raise_for_status()`,
\* or NoException when data = response.json() is reached
Raised(o) ==
    IF o.kind # "response" THEN o.kind
    ELSE IF raise_for_status(o.status) THEN "HTTPError"
    ELSE NoException

\* data.get('success')
data_success(o) == o.success

url_for(conversion_type, year, month, day) ==
    "https://sudhanparajuli.com.np/api/" \o conversion_type \o "/"
        \o ToString(year) \o "/" \o ToString(month) \o "/" \o ToString(day)

GetEvent(url, o) == [ev |-> "get", url |-> url, outcome |-> o, secs |-> 0]
SleepEvent(secs) ==
    [ev |-> "sleep", url |-> "", outcome |-> Failure("none"), secs |-> secs]

Gets(l) == SelectSeq(l, LAMBDA e : e.ev = "get")
Sleeps(l) == SelectSeq(l, LAMBDA e : e.ev = "sleep")

\* an attempt succeeded: a response, no HTTP error, success: true
Succeeded(o) == Raised(o) = NoException /\ data_success(o)

(***************************************************************************)
(* 4. convert_with_retry                                                   *)
(***************************************************************************)
RetryDates == {<<2024, 10, 15>>}

\* wait_time = 2 ** attempt
wait_time(n) == 2 ^ n

\* as RetryBranch, but a successful body does not return from the loop
RetryBranchNoReturn(o) ==
    IF Raised(o) # NoException /\ IsInstance(Raised(o), "RequestException")
    THEN "except"
    ELSE "else"

\* which branch of the try statement one attempt takes
RetryBranch(o) ==
    IF Raised(o) # NoException /\ IsInstance(Raised(o), "RequestException")
    THEN "except"
    ELSE IF data_success(o) THEN "return" ELSE "else"

\* range(1, max_retries + 1) still has the value n
InRange(n, max_retries) == 1 <= n /\ n < max_retries + 1

NoArgs == [year |-> 0, month |-> 0, day |-> 0, conversion_type |-> "",
           max_retries |-> 0]

RetryArgs ==
    [year : {d[1] : d \in RetryDates}, month : {d[2] : d \in RetryDates},
     day : {d[3] : d \in RetryDates}, conversion_type : ConversionTypes,
     max_retries : 0..MaxRetries]

InitRetry ==
    /\ log = <<>>
    /\ pc = "idle"
    /\ args = NoArgs
    /\ attempt = 0
    /\ ret = None
    /\ cache = <<>>
    /\ calls = <<>>
    /\ idx = 0
    /\ results = <<>>

\* the call: the first value of the for loop, or line 160 when the range is empty
convert_with_retry_call(a) ==
    /\ pc = "idle"
    /\ args' = a
    /\ attempt' = 1
    /\ IF InRange(1, a.max_retries)
       THEN pc' = "loop" /\ ret' = ret
       ELSE pc' = "done" /\ ret' = None
    /\ UNCHANGED <<log, cache, calls, idx, results>>

\* one iteration of the for loop
convert_with_retry_attempt(o) ==
    /\ pc = "loop"
    /\ LET url == url_for(args.conversion_type, args.year, args.month, args.day)
           got == Append(log, GetEvent(url, o))
       IN CASE RetryBranch(o) = "return" ->
                 /\ log' = got
                 /\ ret' = o.result
                 /\ pc' = "done"
                 /\ UNCHANGED attempt
            [] RetryBranch(o) = "else" ->
                 /\ log' = got
                 /\ attempt' = attempt + 1
                 /\ IF InRange(attempt + 1, args.max_retries)
                    THEN pc' = "loop" /\ ret' = ret
                    ELSE pc' = "done" /\ ret' = None
            [] RetryBranch(o) = "except" ->
                 IF attempt < args.max_retries
                 THEN /\ log' = Append(got, SleepEvent(wait_time(attempt)))
                      /\ attempt' = attempt + 1
                      /\ pc' = "loop"
                      /\ ret' = ret
                 ELSE /\ log' = got
                      /\ ret' = None
                      /\ pc' = "done"
                      /\ UNCHANGED attempt
    /\ UNCHANGED <<args, cache, calls, idx, results>>

NextRetry ==
    \/ \E a \in RetryArgs : convert_with_retry_call(a)
    \/ \E o \in Outcomes : convert_with_retry_attempt(o)

SpecRetry == InitRetry /\ [][NextRetry]_vars

AllFailed(l) == \A i \in 1..Len(l) : l[i].ev = "get" => ~Succeeded(l[i].outcome)

\* C1: with max_retries = N >= 1 and every attempt failing (any failure kind),
\* exactly N GETs are made, 2^i seconds are slept after the i-th failed attempt
\* for i < N (none after the last), and only then None is returned.
C1_RetryBound ==
    (pc = "done" /\ args.max_retries >= 1 /\ AllFailed(log)) =>
        /\ ret = None
        /\ Len(Gets(log)) = args.max_retries
        /\ Len(log) = 2 * args.max_retries - 1
        /\ \A i \in 1..args.max_retries : log[2 * i - 1].ev = "get"
        /\ \A i \in 1..(args.max_retries - 1) :
              log[2 * i].ev = "sleep" /\ log[2 * i].secs = 2 ^ i

\* C2: convert_with_retry never returns before one GET was issued; with
\* max_retries = 0 exactly one GET is issued.
C2_MinOneAttempt ==
    pc = "done" =>
        /\ Len(Gets(log)) >= 1
        /\ args.max_retries = 0 => Len(Gets(log)) = 1

\* C10: nothing (no GET, no sleep) follows the first successful attempt and
\* the call returns that attempt's result; the call returns a result exactly
\* when one of its at most max_retries attempts succeeded.
C10_StopsOnFirstSuccess ==
    /\ \A i \in 1..Len(log) :
          (log[i].ev = "get" /\ Succeeded(log[i].outcome)) =>
              /\ i = Len(log)
              /\ pc = "done"
              /\ ret = log[i].outcome.result
    /\ Len(Gets(log)) <= args.max_retries
    /\ pc = "done" => (ret # None <=> ~AllFailed(log))

\* a success on the third attempt, after an exception and a success: false body
C10_Witness ==
    /\ pc = "done"
    /\ ret # None
    /\ Len(Gets(log)) = 3
    /\ Len(Sleeps(log)) = 1

(***************************************************************************)
(* 5. DateConverterCache                                                   *)
(***************************************************************************)
CacheDates == {<<2024, 1, 11>>, <<2024, 11, 1>>}

CacheArgs ==
    {[year |-> d[1], month |-> d[2], day |-> d[3], conversion_type |-> t,
      max_retries |-> 0] : d \in CacheDates, t \in ConversionTypes}

\* what the GETs of the cache runs answer: one outcome for each way through
\* convert's try statement, and two different results
CacheOutcomes ==
    {o \in Outcomes : \/ o.kind \in {"Timeout"}
                      \/ o.status \in {200, 500} /\ o.error # "Invalid date"}

\* f"{conv_type}-{year}-{month}-{day}"
_generate_key(year, month, day, conv_type) ==
    conv_type \o "-" \o ToString(year) \o "-" \o ToString(month)
        \o "-" \o ToString(day)

KeyOf(a) == _generate_key(a.year, a.month, a.day, a.conversion_type)

\* as cache_convert, but a success is returned without being stored
cache_convert_no_store(c, a, o) ==
    LET key == KeyOf(a)
    IN IF key \in DOMAIN c
       THEN [cache |-> c, ret |-> c[key], gets |-> 0]
       ELSE IF Raised(o) # NoException
                 /\ IsInstance(Raised(o), "RequestException")
            THEN [cache |-> c, ret |-> None, gets |-> 1]
            ELSE IF data_success(o)
                 THEN [cache |-> c, ret |-> o.result, gets |-> 1]
                 ELSE [cache |-> c, ret |-> None, gets |-> 1]

\* as cache_convert, but the None of a success: false answer is stored too
cache_convert_stores_failure(c, a, o) ==
    LET key == KeyOf(a)
    IN IF key \in DOMAIN c
       THEN [cache |-> c, ret |-> c[key], gets |-> 0]
       ELSE IF Raised(o) # NoException
                 /\ IsInstance(Raised(o), "RequestException")
            THEN [cache |-> c, ret |-> None, gets |-> 1]
            ELSE IF data_success(o)
                 THEN [cache |-> (key :> o.result) @@ c, ret |-> o.result,
                       gets |-> 1]
                 ELSE [cache |-> (key :> None) @@ c, ret |-> None, gets |-> 1]

\* DateConverterCache.convert on the mapping c, the GET (if one is made)
\* answering o: the mapping afterwards, the value returned, the GETs made
cache_convert(c, a, o) ==
    LET key == KeyOf(a)
    IN IF key \in DOMAIN c
       THEN [cache |-> c, ret |-> c[key], gets |-> 0]
       ELSE IF Raised(o) # NoException
                 /\ IsInstance(Raised(o), "RequestException")
            THEN [cache |-> c, ret |-> None, gets |-> 1]
            ELSE IF data_success(o)
                 THEN [cache |-> (key :> o.result) @@ c, ret |-> o.result,
                       gets |-> 1]
                 ELSE [cache |-> c, ret |-> None, gets |-> 1]

CallRecord(op, a, o, gets, r, before) ==
    [op |-> op, args |-> a, outcome |-> o, gets |-> gets, ret |-> r,
     before |-> before]

\* self.cache = {} in __init__
InitCache ==
    /\ log = <<>>
    /\ pc = "idle"
    /\ args = NoArgs
    /\ attempt = 0
    /\ ret = None
    /\ cache = <<>>
    /\ calls = <<>>
    /\ idx = 0
    /\ results = <<>>

DateConverterCache_convert(a, o) ==
    /\ Len(calls) < MaxCalls
    /\ LET r == cache_convert(cache, a, o)
           url == url_for(a.conversion_type, a.year, a.month, a.day)
       IN /\ cache' = r.cache
          /\ ret' = r.ret
          /\ log' = IF r.gets = 1 THEN Append(log, GetEvent(url, o)) ELSE log
          /\ calls' = Append(calls,
                CallRecord("convert", a,
                           IF r.gets = 1 THEN o ELSE Failure("none"),
                           r.gets, r.ret, cache))
    /\ args' = a
    /\ UNCHANGED <<pc, attempt, idx, results>>

\* self.cache.clear()
clear_cache ==
    /\ Len(calls) < MaxCalls
    /\ cache' = <<>>
    /\ ret' = None
    /\ calls' = Append(calls,
          CallRecord("clear_cache", NoArgs, Failure("none"), 0, None, cache))
    /\ UNCHANGED <<log, pc, args, attempt, idx, results>>

\* len(self.cache)
get_cache_size ==
    /\ Len(calls) < MaxCalls
    /\ ret' = [size |-> Cardinality(DOMAIN cache)]
    /\ calls' = Append(calls,
          CallRecord("get_cache_size", NoArgs, Failure("none"), 0,
                     [size |-> Cardinality(DOMAIN cache)], cache))
    /\ UNCHANGED <<log, pc, args, attempt, idx, results, cache>>

NextCache ==
    \/ \E a \in CacheArgs : \E o \in CacheOutcomes :
          DateConverterCache_convert(a, o)
    \/ clear_cache
    \/ get_cache_size

SpecCache == InitCache /\ [][NextCache]_vars

\* the mapping as call number i left it
CacheAfter(i) == IF i < Len(calls) THEN calls[i + 1].before ELSE cache

\* call i was a convert whose GET was answered with success: true
ConvertSucceeded(i) ==
    calls[i].op = "convert" /\ calls[i].gets = 1 /\ Succeeded(calls[i].outcome)

\* call i was a convert whose GET failed
ConvertFailed(i) ==
    calls[i].op = "convert" /\ calls[i].gets = 1 /\ ~Succeeded(calls[i].outcome)

\* calls i and i + 1 are converts with identical arguments
SameConvertTwice(i) ==
    /\ i + 1 <= Len(calls)
    /\ calls[i + 1].op = "convert"
    /\ calls[i].op = "convert"
    /\ calls[i + 1].args = calls[i].args

\* C3: of two consecutive converts with identical arguments, the first one
\* answered with success, only the first issues a GET; the second returns
\* what the first stored in the mapping (and returned).
C3_CacheIdempotence ==
    \A i \in 1..Len(calls) :
        (SameConvertTwice(i) /\ ConvertSucceeded(i)) =>
            /\ calls[i].gets + calls[i + 1].gets = 1
            /\ calls[i + 1].gets = 0
            /\ KeyOf(calls[i].args) \in DOMAIN CacheAfter(i)
            /\ calls[i + 1].ret = CacheAfter(i)[KeyOf(calls[i].args)]
            /\ calls[i + 1].ret = calls[i].outcome.result
            /\ calls[i + 1].ret = calls[i].ret

\* a miss answered with success, then the same convert again, with another
\* date already in the cache
C3_Witness ==
    /\ Len(calls) = 3
    /\ ConvertSucceeded(1)
    /\ ConvertSucceeded(2)
    /\ SameConvertTwice(2)
    /\ calls[1].args # calls[2].args
    /\ calls[3].ret # None

\* C4: every cache entry is the result of a success: true response to the
\* GET for the entry's own (conversion_type, year, month, day); a failing
\* convert returns None and leaves the cache as it was, so that the same
\* convert called next issues a new GET.
C4_FailuresNeverCached ==
    /\ \A k \in DOMAIN cache : \E a \in CacheArgs : k = KeyOf(a)
    /\ \A a \in CacheArgs :
          KeyOf(a) \in DOMAIN cache =>
              \E i \in 1..Len(log) :
                  /\ log[i].ev = "get"
                  /\ log[i].url = url_for(a.conversion_type, a.year,
                                          a.month, a.day)
                  /\ Succeeded(log[i].outcome)
                  /\ log[i].outcome.result = cache[KeyOf(a)]
    /\ \A i \in 1..Len(calls) :
          ConvertFailed(i) =>
              /\ calls[i].ret = None
              /\ CacheAfter(i) = calls[i].before
              /\ SameConvertTwice(i) => calls[i + 1].gets = 1

\* an entry in the cache, then a failed convert of another date, retried
C4_Witness ==
    /\ Len(calls) = 3
    /\ ConvertSucceeded(1)
    /\ ConvertFailed(2)
    /\ SameConvertTwice(2)
    /\ cache # <<>>

(***************************************************************************)
(* 6. convert_batch_dates                                                  *)
(***************************************************************************)
BatchDates == {<<2024, 1, 1>>, <<2024, 6, 15>>}

Delays == {1}

RECURSIVE SeqsUpTo(_, _)
\* the sequences over S of length at most n
SeqsUpTo(S, n) ==
    IF n = 0 THEN {<<>>}
    ELSE LET shorter == SeqsUpTo(S, n - 1)
         IN shorter \cup {Append(q, x) : q \in shorter, x \in S}

BatchArgs ==
    [dates : SeqsUpTo(BatchDates, MaxBatch),
     conversion_type : ConversionTypes, delay : Delays]

InputOf(date) == [year |-> date[1], month |-> date[2], day |-> date[3]]

\* the dictionary appended to `results` for one date and its GET's outcome
batch_entry(date, o) ==
    IF Raised(o) # NoException /\ IsInstance(Raised(o), "RequestException")
    THEN [input |-> InputOf(date), output |-> Absent,
          error |-> Str(Raised(o)), success |-> FALSE]
    ELSE IF data_success(o)
         THEN [input |-> InputOf(date), output |-> o.result,
               error |-> Absent, success |-> TRUE]
         ELSE [input |-> InputOf(date), output |-> Absent,
               error |-> IF o.error = NoKey THEN None ELSE Str(o.error),
               success |-> FALSE]

InitBatch ==
    /\ log = <<>>
    /\ pc = "idle"
    /\ args = NoArgs
    /\ attempt = 0
    /\ ret = None
    /\ cache = <<>>
    /\ calls = <<>>
    /\ idx = 0
    /\ results = <<>>

\* the call: results = [], and the for loop at the first date, if any
convert_batch_dates_call(a) ==
    /\ pc = "idle"
    /\ args' = a
    /\ results' = <<>>
    /\ idx' = 1
    /\ IF Len(a.dates) >= 1
       THEN pc' = "loop" /\ ret' = ret
       ELSE pc' = "done" /\ ret' = <<>>
    /\ UNCHANGED <<log, attempt, cache, calls>>

\* as convert_batch_dates_iteration, but a request exception ends the batch
convert_batch_dates_iteration_aborting(o) ==
    /\ pc = "loop"
    /\ LET date == args.dates[idx]
           url == url_for(args.conversion_type, date[1], date[2], date[3])
           failed == Raised(o) # NoException
       IN /\ log' = log \o <<GetEvent(url, o), SleepEvent(args.delay)>>
          /\ results' = Append(results, batch_entry(date, o))
          /\ idx' = idx + 1
          /\ IF idx + 1 <= Len(args.dates) /\ ~failed
             THEN pc' = "loop" /\ ret' = ret
             ELSE pc' = "done" /\ ret' = Append(results, batch_entry(date, o))
    /\ UNCHANGED <<args, attempt, cache, calls>>

\* one iteration of the for loop: the GET, the entry, time.sleep(delay)
convert_batch_dates_iteration(o) ==
    /\ pc = "loop"
    /\ LET date == args.dates[idx]
           url == url_for(args.conversion_type, date[1], date[2], date[3])
       IN /\ log' = log \o <<GetEvent(url, o), SleepEvent(args.delay)>>
          /\ results' = Append(results, batch_entry(date, o))
          /\ idx' = idx + 1
          /\ IF idx + 1 <= Len(args.dates)
             THEN pc' = "loop" /\ ret' = ret
             ELSE pc' = "done" /\ ret' = Append(results, batch_entry(date, o))
    /\ UNCHANGED <<args, attempt, cache, calls>>

NextBatch ==
    \/ \E a \in BatchArgs : convert_batch_dates_call(a)
    \/ \E o \in Outcomes : convert_batch_dates_iteration(o)

SpecBatch == InitBatch /\ [][NextBatch]_vars

\* C5: the batch issues one GET per date, in input order, and returns one
\* entry per date, in input order: success with the output exactly when that
\* date's GET succeeded, otherwise failure with an error; no failure ends
\* the batch early.
C5_BatchOrderingIsolation ==
    pc = "done" =>
        /\ Len(ret) = Len(args.dates)
        /\ Len(Gets(log)) = Len(args.dates)
        /\ \A i \in 1..Len(args.dates) :
              LET g == Gets(log)[i]
                  d == args.dates[i]
              IN /\ g.url = url_for(args.conversion_type, d[1], d[2], d[3])
                 /\ ret[i].input = [year |-> d[1], month |-> d[2], day |-> d[3]]
                 /\ ret[i].success = Succeeded(g.outcome)
                 /\ IF Succeeded(g.outcome)
                    THEN ret[i].output = g.outcome.result
                         /\ ret[i].error = Absent
                    ELSE ret[i].output = Absent /\ ret[i].error # Absent

\* three different-looking dates, the second failing with success: false,
\* the other two succeeding
C5_Witness ==
    /\ pc = "done"
    /\ Len(ret) = 3
    /\ args.dates[1] # args.dates[2]
    /\ ret[1].success
    /\ ~ret[2].success
    /\ Gets(log)[2].outcome.status = 200
    /\ ret[3].success

\* C6: a batch of n dates sleeps n - 1 times (0 for n <= 1), each sleep
\* after a GET and before the next one: none before the first GET, none
\* after the last.
C6_DelayOnlyBetweenCalls ==
    pc = "done" =>
        /\ Len(Sleeps(log)) =
              IF Len(args.dates) <= 1 THEN 0 ELSE Len(args.dates) - 1
        /\ Len(log) > 0 => log[1].ev = "get" /\ log[Len(log)].ev = "get"

(***************************************************************************)
(* 7. is_valid_ad_date, is_valid_bs_date                                   *)
(***************************************************************************)
ValidYears == {-1, 1900, 1942, 1943, 1944, 1999, 2000, 2001, 2023, 2024,
               2042, 2043, 2099, 2100}
ValidMonths == -1..13
ValidDays == -1..33

\* datetime's _is_leap(year)
_is_leap(year) == year % 4 = 0 /\ (year % 100 # 0 \/ year % 400 = 0)

\* datetime's _DAYS_IN_MONTH[month]
_DAYS_IN_MONTH(month) ==
    CASE month \in {1, 3, 5, 7, 8, 10, 12} -> 31
      [] month \in {4, 6, 9, 11}           -> 30
      [] month = 2                         -> 28

\* datetime's _days_in_month(year, month)
_days_in_month(year, month) ==
    IF month = 2 /\ _is_leap(year) THEN 29 ELSE _DAYS_IN_MONTH(month)

\* datetime(year, month, day) raises no ValueError
datetime_ok(year, month, day) ==
    /\ 1 <= year /\ year <= 9999
    /\ 1 <= month /\ month <= 12
    /\ 1 <= day /\ day <= _days_in_month(year, month)

\* as is_valid_ad_date, but without the datetime(year, month, day) check
is_valid_ad_date_ranges_only(year, month, day) ==
    IF ~(1943 <= year /\ year <= 2042) THEN FALSE
    ELSE IF ~(1 <= month /\ month <= 12) THEN FALSE
    ELSE IF ~(1 <= day /\ day <= 31) THEN FALSE
    ELSE TRUE

is_valid_ad_date(year, month, day) ==
    IF ~(1943 <= year /\ year <= 2042) THEN FALSE
    ELSE IF ~(1 <= month /\ month <= 12) THEN FALSE
    ELSE IF ~(1 <= day /\ day <= 31) THEN FALSE
    ELSE datetime_ok(year, month, day)

\* as is_valid_bs_date, but with the day range of is_valid_ad_date
is_valid_bs_date_day31(year, month, day) ==
    IF ~(2000 <= year /\ year <= 2099) THEN FALSE
    ELSE IF ~(1 <= month /\ month <= 12) THEN FALSE
    ELSE IF ~(1 <= day /\ day <= 31) THEN FALSE
    ELSE TRUE

is_valid_bs_date(year, month, day) ==
    IF ~(2000 <= year /\ year <= 2099) THEN FALSE
    ELSE IF ~(1 <= month /\ month <= 12) THEN FALSE
    ELSE IF ~(1 <= day /\ day <= 32) THEN FALSE
    ELSE TRUE

InitValid ==
    /\ log = <<>>
    /\ pc = "idle"
    /\ args = NoArgs
    /\ attempt = 0
    /\ ret = None
    /\ cache = <<>>
    /\ calls = <<>>
    /\ idx = 0
    /\ results = <<>>

is_valid_ad_date_call(year, month, day) ==
    /\ pc = "idle"
    /\ args' = [year |-> year, month |-> month, day |-> day]
    /\ ret' = [valid |-> is_valid_ad_date(year, month, day)]
    /\ pc' = "ad_done"
    /\ UNCHANGED <<log, attempt, cache, calls, idx, results>>

is_valid_bs_date_call(year, month, day) ==
    /\ pc = "idle"
    /\ args' = [year |-> year, month |-> month, day |-> day]
    /\ ret' = [valid |-> is_valid_bs_date(year, month, day)]
    /\ pc' = "bs_done"
    /\ UNCHANGED <<log, attempt, cache, calls, idx, results>>

NextValid ==
    \/ \E y \in ValidYears, m \in ValidMonths, d \in ValidDays :
          is_valid_ad_date_call(y, m, d)
    \/ \E y \in ValidYears, m \in ValidMonths, d \in ValidDays :
          is_valid_bs_date_call(y, m, d)

SpecValid == InitValid /\ [][NextValid]_vars

\* a year of the Gregorian calendar with a 29th of February
GregorianLeapYear(y) == y % 400 = 0 \/ (y % 4 = 0 /\ y % 100 # 0)

\* (y, m, d) with m in 1..12 and d >= 1 is a day of the Gregorian calendar
RealGregorianDate(y, m, d) ==
    \/ d <= 28
    \/ d <= 30 /\ m # 2
    \/ d = 31 /\ m \in {1, 3, 5, 7, 8, 10, 12}
    \/ d = 29 /\ m = 2 /\ GregorianLeapYear(y)

\* C8: is_valid_ad_date is true exactly for 1943 <= year <= 2042,
\* 1 <= month <= 12, 1 <= day <= 31 forming a real Gregorian date.
C8_ValidAdDate ==
    pc = "ad_done" =>
        (ret.valid <=>
            /\ args.year \in 1943..2042
            /\ args.month \in 1..12
            /\ args.day \in 1..31
            /\ RealGregorianDate(args.year, args.month, args.day))

\* 29 February 2024 accepted
C8_Witness ==
    /\ pc = "ad_done"
    /\ args = [year |-> 2024, month |-> 2, day |-> 29]
    /\ ret.valid

\* C9: is_valid_bs_date is true exactly for 2000 <= year <= 2099,
\* 1 <= month <= 12, 1 <= day <= 32, whatever the month.
C9_ValidBsDate ==
    pc = "bs_done" =>
        (ret.valid <=>
            args \in [year : 2000..2099, month : 1..12, day : 1..32])

\* day 32 accepted
C9_Witness ==
    /\ pc = "bs_done"
    /\ args = [year |-> 2099, month |-> 2, day |-> 32]
    /\ ret.valid

(***************************************************************************)
(* 10. safe_convert                                                        *)
(***************************************************************************)
SafeDates == RetryDates \cup CacheDates \cup BatchDates

SafeArgs ==
    {[year |-> d[1], month |-> d[2], day |-> d[3], conversion_type |-> t,
      max_retries |-> 0] : d \in SafeDates, t \in ConversionTypes}

Return(value) ==
    [kind |-> "return", value |-> value, cls |-> "", message |-> ""]
Raise(cls, message) ==
    [kind |-> "raise", value |-> None, cls |-> cls, message |-> message]

\* as safe_convert_try, but without the `elif response.status_code == 404`
safe_convert_try_no_404(o) ==
    IF o.kind # "response" THEN Raise(o.kind, o.kind)
    ELSE IF o.status = 400
         THEN Raise("ConversionError", "Invalid date provided")
    ELSE IF o.status >= 500
         THEN Raise("ConversionError", "Server error occurred")
    ELSE IF raise_for_status(o.status)
         THEN Raise("HTTPError", "HTTPError")
    ELSE IF data_success(o) THEN Return(o.result)
    ELSE Raise("ConversionError",
               IF o.error = NoKey THEN "Unknown error" ELSE o.error)

\* the try block of safe_convert: what it returns or raises
safe_convert_try(o) ==
    IF o.kind # "response" THEN Raise(o.kind, o.kind)
    ELSE IF o.status = 400
         THEN Raise("ConversionError", "Invalid date provided")
    ELSE IF o.status = 404
         THEN Raise("ConversionError", "API endpoint not found")
    ELSE IF o.status >= 500
         THEN Raise("ConversionError", "Server error occurred")
    ELSE IF raise_for_status(o.status)
         THEN Raise("HTTPError", "HTTPError")
    ELSE IF data_success(o) THEN Return(o.result)
    ELSE Raise("ConversionError",
               IF o.error = NoKey THEN "Unknown error" ELSE o.error)

\* the except clauses of safe_convert, tried in order
safe_convert_except(b) ==
    IF b.kind # "raise" THEN b
    ELSE IF IsInstance(b.cls, "Timeout")
         THEN Raise("ConversionError", "Request timed out")
    ELSE IF IsInstance(b.cls, "ConnectionError")
         THEN Raise("ConversionError", "Connection error")
    ELSE IF IsInstance(b.cls, "RequestException")
         THEN Raise("ConversionError", "Request failed: " \o b.message)
    ELSE b

InitSafe ==
    /\ log = <<>>
    /\ pc = "idle"
    /\ args = NoArgs
    /\ attempt = 0
    /\ ret = None
    /\ cache = <<>>
    /\ calls = <<>>
    /\ idx = 0
    /\ results = <<>>

safe_convert(a, o) ==
    /\ pc = "idle"
    /\ args' = a
    /\ log' = Append(log, GetEvent(url_for(a.conversion_type, a.year,
                                           a.month, a.day), o))
    /\ ret' = safe_convert_except(safe_convert_try(o))
    /\ pc' = "done"
    /\ UNCHANGED <<attempt, cache, calls, idx, results>>

NextSafe == \E a \in SafeArgs : \E o \in Outcomes : safe_convert(a, o)

SpecSafe == InitSafe /\ [][NextSafe]_vars

\* C7: safe_convert issues one GET and then either returns the (non-null)
\* result of an HTTP 200 success: true response or raises ConversionError:
\* "invalid date" for 400, "endpoint not found" for 404, "server error" for
\* >= 500, the server's message for 200 with success: false, "timed out" for
\* a timeout, "connection error" for a connection failure.
C7_TypedErrorFacade ==
    pc = "done" =>
        LET o == log[1].outcome
        IN /\ Len(log) = 1
           /\ log[1].ev = "get"
           /\ log[1].url = url_for(args.conversion_type, args.year,
                                   args.month, args.day)
           /\ ret.kind \in {"return", "raise"}
           /\ ret.kind = "raise" => ret.cls = "ConversionError"
           /\ ret.kind = "return" <=>
                 (o.kind = "response" /\ o.status = 200 /\ o.success)
           /\ ret.kind = "return" =>
                 (ret.value = o.result /\ ret.value \in Results)
           /\ (o.kind = "response" /\ o.status = 400) =>
                 ret.message = "Invalid date provided"
           /\ (o.kind = "response" /\ o.status = 404) =>
                 ret.message = "API endpoint not found"
           /\ (o.kind = "response" /\ o.status >= 500) =>
                 ret.message = "Server error occurred"
           /\ (o.kind = "response" /\ o.status = 200 /\ ~o.success
                  /\ o.error # NoKey) =>
                 ret.message = o.error
           /\ o.kind \in {"Timeout", "ConnectTimeout"} =>
                 ret.message = "Request timed out"
           /\ o.kind = "ConnectionError" => ret.message = "Connection error"

\* a 404 answer turned into ConversionError("API endpoint not found")
C7_Witness ==
    /\ pc = "done"
    /\ log[1].outcome.status = 404
    /\ ret = Raise("ConversionError", "API endpoint not found")

====
